---- MODULE Spec2Model ----
(***************************************************************************)
(* Model of bot.py (daily-income-coach): the users table, the in-memory    *)
(* job queue of the Application, and one action per handler / job          *)
(* callback.  Instants are whole hours since an arbitrary epoch.  The      *)
(* handlers contain no await between their table and job-queue statements  *)
(* other than the final sends, and the Application runs them one at a      *)
(* time, so each handler is one atomic action.  A daily job may fire at    *)
(* any instant: the hour of day at which it fires is not modelled.         *)
(* SpecLoop runs the same statements one at a time under the event-loop    *)
(* rule (a coroutine gives up the loop only at an await) and SpecSend lets *)
(* the Bot API fail.                                                       *)
(***************************************************************************)
EXTENDS Integers, Sequences, FiniteSets, Bags, TLC

VARIABLES
    users,   \* the users table: user_id -> row, DOMAIN = the rows that exist
    jobs,    \* app.job_queue: a bag of jobs (in memory only)
    clock,   \* now_utc(), in hours
    last,    \* what the most recent handler / callback did (observation)
    net,     \* whether calls to the Bot API currently succeed
    tasks,   \* the coroutines being run statement by statement (SpecLoop)
    running  \* the task that holds the event loop, 0 when the loop is idle

vars == <<users, jobs, clock, last, net, tasks, running>>

\* ------------------------------------------------------------------ config
TRIAL_DAYS == 3
SUB_DAYS == 30
LIFETIME_DAYS == 3650
HOURS_PER_DAY == 24
REPLY_WINDOW_HOURS == 18
DEFAULT_SCHEDULE_HOURS == <<8, 12, 20>>

\* ------------------------------------------------------------------ bounds
MaxTime == 96          \* the clock stops advancing here
MaxAhead == 24         \* a subscription is extended only while at most this
                       \* many hours of it remain
MaxJoin == 24          \* a user's first contact happens no later than this
ReplyTick == 6         \* the step of the clock in SpecReply, in hours
MaxReplyTime == 48     \* the clock of SpecReply stops advancing here

UserIds == {1, 12}
ADMIN_IDS == {1}
ZoneInfoKeys == {"Europe/London", "America/Toronto"}
TzInputs == ZoneInfoKeys \cup {"Mars/Phobos"}
DaysInputs == {0, 1}
TextInputs == {"ok", "sent five offers"}
Kinds == {"morning", "midday", "evening"}

\* ------------------------------------------------------------ time helpers
None == -1             \* Python None where a datetime is expected
NULL == << >>          \* SQL NULL / empty text: falsy
NoTz == ""             \* get_timezone() -> None

timedelta(days, hours) == days * HOURS_PER_DAY + hours

dt_from_iso(s) == IF s = NULL THEN None ELSE s[1]

dt_to_iso(dt) == IF dt = None THEN NULL ELSE <<dt>>

is_admin(user_id) == user_id \in ADMIN_IDS

\* ---------------------------------------------------------------------- DB
NewRow(now) ==
    [timezone |-> NULL, trial_start |-> dt_to_iso(now),
     subscription_until |-> NULL, last_prompt |-> NULL, last_prompt_at |-> NULL]

\* ensure_user with the "trial_start is empty" test dropped.
ensure_user_restamps(db, user_id, now) ==
    IF user_id \notin DOMAIN db
    THEN db @@ (user_id :> NewRow(now))
    ELSE [db EXCEPT ![user_id].trial_start = dt_to_iso(now)]

ensure_user(db, user_id, now) ==
    IF user_id \notin DOMAIN db
    THEN db @@ (user_id :> NewRow(now))
    ELSE IF db[user_id].trial_start = NULL
         THEN [db EXCEPT ![user_id].trial_start = dt_to_iso(now)]
         ELSE db

set_timezone(db, user_id, tz_name, now) ==
    [ensure_user(db, user_id, now) EXCEPT ![user_id].timezone = <<tz_name>>]

get_timezone(db, user_id) ==
    IF user_id \in DOMAIN db /\ db[user_id].timezone # NULL
    THEN db[user_id].timezone[1] ELSE NoTz

get_trial_start(db, user_id) ==
    IF user_id \in DOMAIN db /\ db[user_id].trial_start # NULL
    THEN dt_from_iso(db[user_id].trial_start) ELSE None

get_subscription_until(db, user_id) ==
    IF user_id \in DOMAIN db /\ db[user_id].subscription_until # NULL
    THEN dt_from_iso(db[user_id].subscription_until) ELSE None

set_subscription_until(db, user_id, until_dt, now) ==
    [ensure_user(db, user_id, now) EXCEPT
        ![user_id].subscription_until = dt_to_iso(until_dt)]

\* extend_subscription counting from the wall clock instead of the remainder.
extend_subscription_from_now(db, user_id, days, now) ==
    LET new_until == now + timedelta(days, 0)
    IN  [db |-> set_subscription_until(db, user_id, new_until, now),
         new_until |-> new_until]

extend_subscription(db, user_id, days, now) ==
    LET current == get_subscription_until(db, user_id)
        base == IF current # None /\ current > now THEN current ELSE now
        new_until == base + timedelta(days, 0)
    IN  [db |-> set_subscription_until(db, user_id, new_until, now),
         new_until |-> new_until]

\* set_last_prompt that stores the kind without the instant.
set_last_prompt_untimed(db, user_id, prompt_type, now) ==
    [ensure_user(db, user_id, now) EXCEPT
        ![user_id].last_prompt = <<prompt_type>>]

set_last_prompt(db, user_id, prompt_type, now) ==
    [ensure_user(db, user_id, now) EXCEPT
        ![user_id].last_prompt = <<prompt_type>>,
        ![user_id].last_prompt_at = dt_to_iso(now)]

get_last_prompt(db, user_id) ==
    IF user_id \notin DOMAIN db
    THEN [prompt_type |-> NULL, prompt_at |-> None]
    ELSE [prompt_type |-> db[user_id].last_prompt,
          prompt_at |-> IF db[user_id].last_prompt_at # NULL
                        THEN dt_from_iso(db[user_id].last_prompt_at) ELSE None]

\* access_state with non-strict comparisons.
access_state_nonstrict(db, user_id, now) ==
    LET db1 == ensure_user(db, user_id, now)
        sub_until == get_subscription_until(db1, user_id)
        trial_start == get_trial_start(db1, user_id)
        trial_until == trial_start + timedelta(TRIAL_DAYS, 0)
    IN  IF sub_until # None /\ sub_until >= now
        THEN [db |-> db1, allowed |-> TRUE, label |-> "Subscription",
              left |-> sub_until - now]
        ELSE IF trial_start # None /\ trial_until >= now
        THEN [db |-> db1, allowed |-> TRUE, label |-> "Trial",
              left |-> trial_until - now]
        ELSE [db |-> db1, allowed |-> FALSE, label |-> "Expired", left |-> 0]

access_state(db, user_id, now) ==
    LET db1 == ensure_user(db, user_id, now)
        sub_until == get_subscription_until(db1, user_id)
        trial_start == get_trial_start(db1, user_id)
        trial_until == trial_start + timedelta(TRIAL_DAYS, 0)
    IN  IF sub_until # None /\ sub_until > now
        THEN [db |-> db1, allowed |-> TRUE, label |-> "Subscription",
              left |-> sub_until - now]
        ELSE IF trial_start # None /\ trial_until > now
        THEN [db |-> db1, allowed |-> TRUE, label |-> "Trial",
              left |-> trial_until - now]
        ELSE [db |-> db1, allowed |-> FALSE, label |-> "Expired", left |-> 0]

\* -------------------------------------------------------------- scheduling
Digit == <<"0", "1", "2", "3", "4", "5", "6", "7", "8", "9">>

RECURSIVE str(_)
str(n) == IF n < 10 THEN <<Digit[n + 1]>>
          ELSE str(n \div 10) \o <<Digit[(n % 10) + 1]>>

startswith(s, prefix) ==
    /\ Len(prefix) <= Len(s)
    /\ SubSeq(s, 1, Len(prefix)) = prefix

\* The name prefix without its closing colon.
UserPrefix_no_colon(user_id) == <<"user", ":">> \o str(user_id)

UserPrefix(user_id) == <<"user", ":">> \o str(user_id) \o <<":">>

JobName(user_id, kind) == UserPrefix(user_id) \o <<kind>>

KindHour(kind) ==
    CASE kind = "morning" -> DEFAULT_SCHEDULE_HOURS[1]
      [] kind = "midday"  -> DEFAULT_SCHEDULE_HOURS[2]
      [] kind = "evening" -> DEFAULT_SCHEDULE_HOURS[3]

run_daily(jq, kind, tz, user_id) ==
    jq (+) SetToBag({[name |-> JobName(user_id, kind), callback |-> kind,
                      hour |-> KindHour(kind), tzinfo |-> tz,
                      data |-> user_id]})

\* The loop over job_queue.jobs(): schedule_removal() takes a job out of the
\* queue at once.
RemoveUserJobs(jq, user_id) ==
    LET keep == {j \in DOMAIN jq : ~startswith(j.name, UserPrefix(user_id))}
    IN  [j \in keep |-> jq[j]]

\* reschedule without the removal loop.
reschedule_keeps_old(jq, user_id, tz_name) ==
    IF tz_name \notin ZoneInfoKeys
    THEN [raised |-> TRUE, jobs |-> jq]
    ELSE [raised |-> FALSE,
          jobs |-> run_daily(run_daily(run_daily(jq,
                       "morning", tz_name, user_id),
                       "midday", tz_name, user_id),
                       "evening", tz_name, user_id)]

\* ZoneInfo(tz_name) raises on an unknown key, before any job is removed.
reschedule(jq, user_id, tz_name) ==
    IF tz_name \notin ZoneInfoKeys
    THEN [raised |-> TRUE, jobs |-> jq]
    ELSE [raised |-> FALSE,
          jobs |-> run_daily(run_daily(run_daily(
                       RemoveUserJobs(jq, user_id),
                       "morning", tz_name, user_id),
                       "midday", tz_name, user_id),
                       "evening", tz_name, user_id)]

\* ------------------------------------------------------------ observations
JobsOf(jq, user_id) ==
    LET mine == {j \in DOMAIN jq : j.data = user_id}
    IN  BagCardinality([j \in mine |-> jq[j]])

\* A message is observed as sent only when the Bot API call succeeds.
Obs(op, uid, label, msg, resched, days, preJobs) ==
    [op |-> op, uid |-> uid, label |-> label,
     msg |-> IF net \/ msg = "-" THEN msg ELSE "undelivered",
     resched |-> resched, days |-> days, preJobs |-> preJobs]

\* -------------------------------------------------------------------- Init
Init ==
    /\ users = << >>
    /\ jobs = EmptyBag
    /\ clock = 0
    /\ net = TRUE
    /\ tasks = << >>
    /\ running = 0
    /\ last = Obs("init", 0, "-", "-", "-", 0, 0)

\* ------------------------------------------------------------------- clock
Tick ==
    /\ clock + HOURS_PER_DAY <= MaxTime
    /\ clock' = clock + HOURS_PER_DAY
    /\ last' = Obs("tick", 0, "-", "-", "-", 0, 0)
    /\ UNCHANGED <<users, jobs>>

\* ----------------------------------------------------------- user commands
help_cmd(user_id) ==
    /\ users' = ensure_user(users, user_id, clock)
    /\ last' = Obs("help_cmd", user_id, "-", "help", "-", 0, JobsOf(jobs, user_id))
    /\ UNCHANGED <<jobs, clock>>

start(user_id) ==
    LET db1 == ensure_user(users, user_id, clock)
        tz == get_timezone(db1, user_id)
        acc == access_state(db1, user_id, clock)
        rs == reschedule(jobs, user_id, tz)
        pre == JobsOf(jobs, user_id)
    IN  IF tz = NoTz
        THEN /\ users' = db1
             /\ last' = Obs("start", user_id, "-", "welcome", "-", 0, pre)
             /\ UNCHANGED <<jobs, clock>>
        ELSE IF ~acc.allowed
        THEN /\ users' = acc.db
             /\ last' = Obs("start", user_id, acc.label, "expired", "-", 0, pre)
             /\ UNCHANGED <<jobs, clock>>
        ELSE IF rs.raised
        THEN /\ users' = acc.db
             /\ last' = Obs("start", user_id, acc.label, "-", "raised", 0, pre)
             /\ UNCHANGED <<jobs, clock>>
        ELSE /\ users' = acc.db
             /\ jobs' = rs.jobs
             /\ last' = Obs("start", user_id, acc.label, "active", "done", 0, pre)
             /\ UNCHANGED clock

status_cmd(user_id) ==
    LET acc == access_state(ensure_user(users, user_id, clock), user_id, clock)
    IN  /\ users' = acc.db
        /\ last' = Obs("status_cmd", user_id, acc.label, "status", "-", 0,
                       JobsOf(jobs, user_id))
        /\ UNCHANGED <<jobs, clock>>

timezone_cmd(user_id) ==
    /\ users' = ensure_user(users, user_id, clock)
    /\ last' = Obs("timezone_cmd", user_id, "-", "choose", "-", 0,
                   JobsOf(jobs, user_id))
    /\ UNCHANGED <<jobs, clock>>

tz_callback(user_id, tz_name) ==
    LET db1 == set_timezone(users, user_id, tz_name, clock)
        acc == access_state(db1, user_id, clock)
        rs == reschedule(jobs, user_id, tz_name)
        pre == JobsOf(jobs, user_id)
    IN  IF ~net
        THEN \* await query.answer() raises: the handler stops there
             /\ last' = Obs("tz_callback", user_id, "-", "saved", "-", 0, pre)
             /\ UNCHANGED <<users, jobs, clock>>
        ELSE
        /\ users' = acc.db
        /\ UNCHANGED clock
        /\ IF ~acc.allowed
           THEN /\ last' = Obs("tz_callback", user_id, acc.label, "saved", "-", 0, pre)
                /\ UNCHANGED jobs
           ELSE IF rs.raised
           THEN /\ last' = Obs("tz_callback", user_id, acc.label, "-", "raised", 0, pre)
                /\ UNCHANGED jobs
           ELSE /\ last' = Obs("tz_callback", user_id, acc.label, "saved", "done", 0, pre)
                /\ jobs' = rs.jobs

\* ---------------------------------------------------------------- payments
subscribe_cmd(user_id) ==
    /\ users' = ensure_user(users, user_id, clock)
    /\ last' = Obs("subscribe_cmd", user_id, "-", "invoice", "-", 0,
                   JobsOf(jobs, user_id))
    /\ UNCHANGED <<jobs, clock>>

\* The exploration bound on stacked extensions.
MayExtend(user_id) ==
    LET current == get_subscription_until(users, user_id)
    IN  current = None \/ current <= clock + MaxAhead

\* The extension alone, the jobs left as they are.
ExtendOnly(op, user_id, days, msg) ==
    LET ext == extend_subscription(users, user_id, days, clock)
    IN  /\ users' = ext.db
        /\ last' = Obs(op, user_id, "-", msg, "-", days, JobsOf(jobs, user_id))
        /\ UNCHANGED <<jobs, clock>>

\* extend_subscription, then reschedule inside try/except when a timezone is
\* stored: the shared body of the payment handler, /activate and /lifetime.
ExtendAndReschedule(op, user_id, days, msg) ==
    LET ext == extend_subscription(users, user_id, days, clock)
        tz == get_timezone(ext.db, user_id)
        rs == reschedule(jobs, user_id, tz)
        pre == JobsOf(jobs, user_id)
    IN  /\ users' = ext.db
        /\ UNCHANGED clock
        /\ IF tz = NoTz
           THEN /\ UNCHANGED jobs
                /\ last' = Obs(op, user_id, "-", msg, "-", days, pre)
           ELSE IF rs.raised
           THEN /\ UNCHANGED jobs
                /\ last' = Obs(op, user_id, "-", msg, "raised", days, pre)
           ELSE /\ jobs' = rs.jobs
                /\ last' = Obs(op, user_id, "-", msg, "done", days, pre)

successful_payment_handler(user_id) ==
    /\ MayExtend(user_id)
    /\ ExtendAndReschedule("successful_payment_handler", user_id, SUB_DAYS,
                           "payment received")

\* ----------------------------------------------------------- admin commands
\* The wrapper's refusal, and a handler's early return on bad arguments.
Rejected(op, caller, msg) ==
    /\ last' = Obs(op, caller, "-", msg, "-", 0, JobsOf(jobs, caller))
    /\ UNCHANGED <<users, jobs, clock>>

require_admin(caller, handler) ==
    IF ~is_admin(caller) THEN Rejected("require_admin", caller, "admin only")
    ELSE handler

activate(caller, target_id, days) ==
    require_admin(caller,
        IF days <= 0 THEN Rejected("activate", caller, "invalid args")
        ELSE /\ MayExtend(target_id)
             /\ ExtendAndReschedule("activate", target_id, days, "activated"))

lifetime(caller, target_id) ==
    require_admin(caller,
        /\ MayExtend(target_id)
        /\ ExtendAndReschedule("lifetime", target_id, LIFETIME_DAYS,
                               "lifetime activated"))

\* /revoke without the job-removal loop.
revoke_keeps_jobs(caller, target_id) ==
    require_admin(caller,
        /\ users' = set_subscription_until(users, target_id, None, clock)
        /\ last' = Obs("revoke", target_id, "-", "revoked", "-", 0,
                       JobsOf(jobs, target_id))
        /\ UNCHANGED <<jobs, clock>>)

revoke(caller, target_id) ==
    require_admin(caller,
        /\ users' = set_subscription_until(users, target_id, None, clock)
        /\ jobs' = RemoveUserJobs(jobs, target_id)
        /\ last' = Obs("revoke", target_id, "-", "revoked", "-", 0,
                       JobsOf(jobs, target_id))
        /\ UNCHANGED clock)

\* ---------------------------------------------------------- job callbacks
\* A job callback that trusts the access it had when it was installed.
JobCallback_unchecked(job, kind) ==
    LET user_id == job.data
        acc == access_state(users, user_id, clock)
        pre == JobsOf(jobs, user_id)
    IN  /\ job.callback = kind
        /\ UNCHANGED <<jobs, clock>>
        /\ users' = set_last_prompt(acc.db, user_id, kind, clock)
        /\ last' = Obs(kind \o "_job", user_id, acc.label, "reminder", "-", 0, pre)

JobCallback(job, kind) ==
    LET user_id == job.data
        acc == access_state(users, user_id, clock)
        pre == JobsOf(jobs, user_id)
    IN  /\ job.callback = kind
        /\ UNCHANGED <<jobs, clock>>
        /\ IF ~acc.allowed
           THEN /\ users' = acc.db
                /\ last' = Obs(kind \o "_job", user_id, acc.label, "-", "-", 0, pre)
           ELSE /\ users' = set_last_prompt(acc.db, user_id, kind, clock)
                /\ last' = Obs(kind \o "_job", user_id, acc.label, "reminder", "-", 0, pre)

morning_job(job) == JobCallback(job, "morning")

midday_job(job) == JobCallback(job, "midday")

evening_job(job) == JobCallback(job, "evening")

\* --------------------------------------------------------- message handler
reaction_for(prompt_type, user_text) ==
    IF user_text = "ok" THEN "make it specific"
    ELSE IF user_text = "did nothing" THEN "smallest step"
    ELSE IF prompt_type = <<"morning">> THEN "reply to morning"
    ELSE IF prompt_type = <<"midday">> THEN "reply to midday"
    ELSE IF prompt_type = <<"evening">> THEN "reply to evening"
    ELSE "fallback"

\* The message handler without its access check.
on_message_unchecked(user_id, user_text) ==
    LET acc == access_state(ensure_user(users, user_id, clock), user_id, clock)
        lp == get_last_prompt(acc.db, user_id)
        prompt_type ==
            IF lp.prompt_at # None
               /\ clock - lp.prompt_at > timedelta(0, REPLY_WINDOW_HOURS)
            THEN NULL ELSE lp.prompt_type
    IN  /\ users' = acc.db
        /\ UNCHANGED <<jobs, clock>>
        /\ last' = Obs("on_message", user_id, acc.label,
                       reaction_for(prompt_type, user_text), "-", 0,
                       JobsOf(jobs, user_id))

on_message(user_id, user_text) ==
    LET acc == access_state(ensure_user(users, user_id, clock), user_id, clock)
        lp == get_last_prompt(acc.db, user_id)
        prompt_type ==
            IF lp.prompt_at # None
               /\ clock - lp.prompt_at > timedelta(0, REPLY_WINDOW_HOURS)
            THEN NULL ELSE lp.prompt_type
        pre == JobsOf(jobs, user_id)
    IN  /\ users' = acc.db
        /\ UNCHANGED <<jobs, clock>>
        /\ IF ~acc.allowed
           THEN last' = Obs("on_message", user_id, acc.label, "expired", "-", 0, pre)
           ELSE last' = Obs("on_message", user_id, acc.label,
                            reaction_for(prompt_type, user_text), "-", 0, pre)

\* --------------------------------------------------------------- bootstrap
\* A process start: the Application is built with an empty job queue, the
\* table is kept (CREATE TABLE IF NOT EXISTS), handlers are registered.
main ==
    /\ jobs' = EmptyBag
    /\ last' = Obs("main", 0, "-", "-", "-", 0, 0)
    /\ UNCHANGED <<users, clock>>

\* ----------------------------------------------------------- specification
Actors == {1}

\* The exploration bound on first contacts: a row is created early enough
\* for its trial to run out before the clock stops.
Joins(user_id) == user_id \in DOMAIN users \/ clock <= MaxJoin

\* The handlers of Spec run with the loop idle and the Bot API up.
Idle == UNCHANGED <<net, tasks, running>>

Next ==
    \/ Tick /\ Idle
    \/ main /\ Idle
    \/ \E u \in Actors : Joins(u) /\ help_cmd(u) /\ Idle
    \/ \E u \in Actors : Joins(u) /\ start(u) /\ Idle
    \/ \E u \in Actors : Joins(u) /\ status_cmd(u) /\ Idle
    \/ \E u \in Actors : Joins(u) /\ timezone_cmd(u) /\ Idle
    \/ \E u \in Actors, tz \in TzInputs : Joins(u) /\ tz_callback(u, tz) /\ Idle
    \/ \E u \in Actors : Joins(u) /\ subscribe_cmd(u) /\ Idle
    \/ \E u \in Actors : Joins(u) /\ successful_payment_handler(u) /\ Idle
    \/ \E c \in UserIds, t \in Actors, d \in DaysInputs :
          Joins(t) /\ activate(c, t, d) /\ Idle
    \/ \E c \in UserIds, t \in Actors : Joins(t) /\ lifetime(c, t) /\ Idle
    \/ \E c \in UserIds, t \in Actors : Joins(t) /\ revoke(c, t) /\ Idle
    \/ \E j \in BagToSet(jobs) : morning_job(j) /\ Idle
    \/ \E j \in BagToSet(jobs) : midday_job(j) /\ Idle
    \/ \E j \in BagToSet(jobs) : evening_job(j) /\ Idle
    \/ \E u \in Actors, text \in TextInputs :
          Joins(u) /\ on_message(u, text) /\ Idle

Spec == Init /\ [][Next]_vars

\* ------------------------------------------- function-level specification
\* access_state applied directly to a table, outside any handler: the tables
\* hold rows as ensure_user and set_subscription_until leave them.
StoredRows ==
    [timezone : {NULL}, trial_start : {<<0>>, <<24>>},
     subscription_until : {NULL, <<24>>, <<72>>},
     last_prompt : {NULL}, last_prompt_at : {NULL}]

Tables == UNION {[D -> StoredRows] : D \in SUBSET UserIds}

Instants == {h \in 0..MaxTime : h % HOURS_PER_DAY = 0}

InitFn ==
    /\ users \in Tables
    /\ jobs = EmptyBag
    /\ clock \in Instants
    /\ net = TRUE
    /\ tasks = << >>
    /\ running = 0
    /\ last = Obs("init", 0, "-", "-", "-", 0, 0)

EvalAccess(user_id) ==
    LET acc == access_state(users, user_id, clock)
    IN  /\ users' = acc.db
        /\ last' = Obs("access_state", user_id, acc.label, "-", "-", 0, 0)
        /\ UNCHANGED <<jobs, clock>>

NextFn ==
    \/ Tick /\ Idle
    \/ \E u \in UserIds : EvalAccess(u) /\ Idle

SpecFn == InitFn /\ [][NextFn]_vars

\* ------------------------------------------------- two-user specification
\* Both user ids act, at one instant: the handlers that install or remove
\* jobs, from either user and aimed at either user.
NextTwo ==
    \/ \E u \in UserIds : start(u) /\ Idle
    \/ \E u \in UserIds, tz \in TzInputs : tz_callback(u, tz) /\ Idle
    \/ \E u \in UserIds : successful_payment_handler(u) /\ Idle
    \/ \E c \in UserIds, t \in UserIds : revoke(c, t) /\ Idle

SpecTwo == Init /\ [][NextTwo]_vars

\* --------------------------------------------- delivery-failure specification
\* The Bot API goes down and comes back at any moment; the handlers and job
\* callbacks that the error taxonomy names run under either condition.
Network ==
    /\ net' = ~net
    /\ UNCHANGED <<users, jobs, clock, last, tasks, running>>

\* A handler leaves the network and the event loop as they are.
Still == UNCHANGED <<net, tasks, running>>

NextSend ==
    \/ Network
    \/ \E u \in Actors : start(u) /\ Still
    \/ \E u \in Actors, tz \in TzInputs : tz_callback(u, tz) /\ Still
    \/ \E u \in Actors : successful_payment_handler(u) /\ Still
    \/ \E c \in UserIds, t \in Actors, d \in DaysInputs :
          activate(c, t, d) /\ Still
    \/ \E c \in UserIds, t \in Actors : revoke(c, t) /\ Still
    \/ \E j \in BagToSet(jobs) : morning_job(j) /\ Still
    \/ \E j \in BagToSet(jobs) : midday_job(j) /\ Still
    \/ \E j \in BagToSet(jobs) : evening_job(j) /\ Still

SpecSend == Init /\ [][NextSend]_vars

\* ------------------------------------------------ event-loop specification
\* Two coroutines for the same user run statement by statement on the one
\* asyncio loop: a coroutine keeps the loop until it reaches an await, and
\* job callbacks fire whenever the loop is idle.
TaskIds == {1, 2}
LoopUser == 1

\* The statements of a handler, in source order.
RescheduleStmts == <<"remove", "run_morning", "run_midday", "run_evening">>

Program(op) ==
    CASE op = "start" ->
           <<"ensure_select", "ensure_write", "get_timezone", "access_state">>
           \o RescheduleStmts \o <<"await_reply">>
      [] op = "successful_payment_handler" ->
           <<"ensure_select", "ensure_write", "ext_read", "ext_write",
             "get_timezone">> \o RescheduleStmts \o <<"await_reply">>
      [] op = "activate" ->
           <<"ext_read", "ext_write", "get_timezone">>
           \o RescheduleStmts \o <<"await_reply">>
      [] op = "tz_callback" ->
           <<"await_answer", "set_timezone", "access_state">>
           \o RescheduleStmts \o <<"await_reply">>

\* The statements at which a coroutine gives up the event loop.
Yields_everywhere(stmt) == TRUE

Yields(stmt) == stmt \in {"await_answer", "await_reply"}

Task(op, days, tz_name, sub0) ==
    [op |-> op, user_id |-> LoopUser, days |-> days, tz_name |-> tz_name,
     pc |-> 1, found |-> FALSE, current |-> None, tz |-> NoTz,
     inserted |-> FALSE, removed |-> FALSE, sub0 |-> sub0]

\* The handler invocations under way; sub0 remembers subscription_until as
\* it was before either of them ran.
TaskInputs(db) ==
    LET sub0 == get_subscription_until(db, LoopUser)
    IN  { Task("start", 0, NoTz, sub0),
          Task("successful_payment_handler", SUB_DAYS, NoTz, sub0),
          Task("activate", 1, NoTz, sub0),
          Task("tz_callback", 0, "America/Toronto", sub0) }

LoopRow(tz, sub) ==
    [timezone |-> tz, trial_start |-> <<0>>, subscription_until |-> sub,
     last_prompt |-> NULL, last_prompt_at |-> NULL]

LoopTables ==
    { << >>,
      LoopUser :> LoopRow(NULL, NULL),
      LoopUser :> LoopRow(<<"Europe/London">>, NULL),
      LoopUser :> LoopRow(<<"Europe/London">>, <<24>>) }

InitLoop ==
    /\ users \in LoopTables
    /\ jobs \in {EmptyBag} \cup
                (IF get_timezone(users, LoopUser) = NoTz THEN {}
                 ELSE {reschedule(EmptyBag, LoopUser,
                                  get_timezone(users, LoopUser)).jobs})
    /\ clock \in {0, 2 * HOURS_PER_DAY}
    /\ net = TRUE
    /\ tasks \in [TaskIds -> TaskInputs(users)]
    /\ running = 0
    /\ last = Obs("init", 0, "-", "-", "-", 0, 0)

Finished(task) == task.pc > Len(Program(task.op))

\* One statement of task t.
Step(t) ==
    LET task == tasks[t]
        prog == Program(task.op)
        stmt == prog[task.pc]
        u == task.user_id
        reply == Len(prog)
        acc == access_state(users, u, clock)
        lookup == get_timezone(users, u)
        base == IF task.current # None /\ task.current > clock
                THEN task.current ELSE clock
        kind == CASE stmt = "run_morning" -> "morning"
                  [] stmt = "run_midday" -> "midday"
                  [] OTHER -> "evening"
        Goto(fields, pc) ==
            /\ tasks' = [tasks EXCEPT ![t] = [fields EXCEPT !.pc = pc]]
            /\ running' = IF pc > reply \/ Yields(stmt) THEN 0 ELSE t
    IN  /\ running \in {0, t}
        /\ ~Finished(task)
        /\ UNCHANGED <<clock, last, net>>
        /\ CASE stmt \in {"await_answer", "await_reply"} ->
                  /\ Goto(task, task.pc + 1)
                  /\ UNCHANGED <<users, jobs>>
             [] stmt = "ensure_select" ->
                  /\ Goto([task EXCEPT !.found = u \in DOMAIN users],
                          task.pc + 1)
                  /\ UNCHANGED <<users, jobs>>
             [] stmt = "ensure_write" ->
                  IF ~task.found /\ u \in DOMAIN users
                  THEN \* INSERT on an existing primary key raises
                       /\ Goto(task, reply + 1)
                       /\ UNCHANGED <<users, jobs>>
                  ELSE /\ users' = ensure_user(users, u, clock)
                       /\ Goto([task EXCEPT !.inserted = ~task.found],
                               task.pc + 1)
                       /\ UNCHANGED jobs
             [] stmt = "ext_read" ->
                  /\ Goto([task EXCEPT
                             !.current = get_subscription_until(users, u)],
                          task.pc + 1)
                  /\ UNCHANGED <<users, jobs>>
             [] stmt = "ext_write" ->
                  /\ users' = set_subscription_until(
                                  users, u, base + timedelta(task.days, 0),
                                  clock)
                  /\ Goto([task EXCEPT !.inserted = u \notin DOMAIN users],
                          task.pc + 1)
                  /\ UNCHANGED jobs
             [] stmt = "set_timezone" ->
                  /\ users' = set_timezone(users, u, task.tz_name, clock)
                  /\ Goto([task EXCEPT !.tz = task.tz_name,
                                       !.inserted = u \notin DOMAIN users],
                          task.pc + 1)
                  /\ UNCHANGED jobs
             [] stmt = "get_timezone" ->
                  /\ Goto([task EXCEPT !.tz = lookup],
                          IF lookup = NoTz THEN reply ELSE task.pc + 1)
                  /\ UNCHANGED <<users, jobs>>
             [] stmt = "access_state" ->
                  /\ users' = acc.db
                  /\ Goto(task, IF acc.allowed THEN task.pc + 1 ELSE reply)
                  /\ UNCHANGED jobs
             [] stmt = "remove" ->
                  /\ jobs' = RemoveUserJobs(jobs, u)
                  /\ Goto([task EXCEPT !.removed = TRUE], task.pc + 1)
                  /\ UNCHANGED users
             [] OTHER ->
                  /\ jobs' = run_daily(jobs, kind, task.tz, u)
                  /\ Goto(task, task.pc + 1)
                  /\ UNCHANGED users

NextLoop ==
    \/ \E t \in TaskIds : Step(t)
    \/ \E j \in BagToSet(jobs) : running = 0 /\ morning_job(j) /\ Idle
    \/ \E j \in BagToSet(jobs) : running = 0 /\ midday_job(j) /\ Idle
    \/ \E j \in BagToSet(jobs) : running = 0 /\ evening_job(j) /\ Idle

SpecLoop == InitLoop /\ [][NextLoop]_vars

\* ------------------------------------------------ reply-window specification
\* The clock moves in steps shorter than the reply window, within the trial:
\* a timezone selection installs the jobs, jobs fire and the user writes.
Pass ==
    /\ clock + ReplyTick <= MaxReplyTime
    /\ clock' = clock + ReplyTick
    /\ last' = Obs("tick", 0, "-", "-", "-", 0, 0)
    /\ UNCHANGED <<users, jobs>>

NextReply ==
    \/ Pass /\ Idle
    \/ \E u \in Actors, tz \in ZoneInfoKeys : tz_callback(u, tz) /\ Idle
    \/ \E j \in BagToSet(jobs) : morning_job(j) /\ Idle
    \/ \E j \in BagToSet(jobs) : midday_job(j) /\ Idle
    \/ \E j \in BagToSet(jobs) : evening_job(j) /\ Idle
    \/ \E u \in Actors, text \in TextInputs : on_message(u, text) /\ Idle

SpecReply == Init /\ [][NextReply]_vars

\* ------------------------------------------------------------------ claims
JobOps == {"morning_job", "midday_job", "evening_job"}
ExtendOps == {"successful_payment_handler", "activate", "lifetime"}

TrialHours == TRIAL_DAYS * HOURS_PER_DAY

\* The stored instants of a row, None when the row or the field is absent.
SubOf(db, u) ==
    IF u \in DOMAIN db /\ db[u].subscription_until # NULL
    THEN db[u].subscription_until[1] ELSE None

TrialOf(db, u) ==
    IF u \in DOMAIN db /\ db[u].trial_start # NULL
    THEN db[u].trial_start[1] ELSE None

\* The access decision as the specification words it, on the stored fields.
Decision(db, u, now) ==
    IF SubOf(db, u) # None /\ SubOf(db, u) > now THEN "Subscription"
    ELSE IF TrialOf(db, u) # None /\ TrialOf(db, u) + TrialHours > now THEN "Trial"
    ELSE "Expired"

Granted(db, u, now) == Decision(db, u, now) # "Expired"

LiveKinds(u, kind) ==
    LET named == {j \in DOMAIN jobs : j.name = JobName(u, kind)}
    IN  BagCardinality([j \in named |-> jobs[j]])

\* C1: whenever a handler or job callback has evaluated access for a user,
\* the result is Subscription if subscription_until is set and > now, else
\* Trial if trial_start is set and trial_start + 3 days > now, else Expired
\* (subscription first, both comparisons strict).
C1_AccessDecision ==
    last.label # "-" => last.label = Decision(users, last.uid, clock)

\* C1 witness: access evaluated at exactly trial_start + 3 days and exactly
\* subscription_until, and refused.
C1_Witness ==
    /\ last.label = "Expired"
    /\ SubOf(users, last.uid) = clock
    /\ TrialOf(users, last.uid) + TrialHours = clock

\* C2: after every completed reschedule the user has exactly three live
\* jobs, one per kind, however many existed before.
C2_RescheduleIdempotent ==
    last.resched = "done" =>
        /\ JobsOf(jobs, last.uid) = 3
        /\ \A k \in Kinds : LiveKinds(last.uid, k) = 1

\* C2 witness: a /start that reschedules a user who already had three jobs.
C2_Witness ==
    /\ last.op = "start"
    /\ last.resched = "done"
    /\ last.preJobs = 3
    /\ JobsOf(jobs, last.uid) = 3

\* C3: after /start or a timezone selection for a user whose timezone is
\* unset or whose access is not granted, the user has no live jobs.
C3_NoPreconditionNoTriggers ==
    ( /\ last.op \in {"start", "tz_callback"}
      /\ \/ get_timezone(users, last.uid) = NoTz
         \/ ~Granted(users, last.uid, clock) )
    => JobsOf(jobs, last.uid) = 0

\* C4: right after a process start every user with a timezone and granted
\* access has three live jobs, every other user none.
C4_RecoveryRebuilds ==
    last.op = "main" =>
        \A u \in DOMAIN users :
            IF get_timezone(users, u) \in ZoneInfoKeys /\ Granted(users, u, clock)
            THEN JobsOf(jobs, u) = 3
            ELSE JobsOf(jobs, u) = 0

\* C5: with no grant or extension in between, a user is never sent the
\* access-expired notice by two successive operations.
C5_OneNoticePerEpisode ==
    [][~( /\ last.msg = "expired"
          /\ last'.msg = "expired"
          /\ last'.uid = last.uid )]_vars

\* C6: after a job callback that found access not granted, the user has no
\* live jobs.
C6_ExpiredFiringCancels ==
    (last.op \in JobOps /\ last.label = "Expired") => JobsOf(jobs, last.uid) = 0

\* C7: a job callback that runs while the user's access is not granted
\* sends no reminder and writes nothing to the table.
C7_FiringRechecksAccess ==
    [][ (last'.op \in JobOps /\ ~Granted(users, last'.uid, clock))
        => (last'.msg # "reminder" /\ users' = users) ]_vars

\* C7 witness: a job installed while access was granted has fired after
\* the access ran out, and sent nothing.
C7_Witness ==
    /\ last.op \in JobOps
    /\ ~Granted(users, last.uid, clock)
    /\ last.msg = "-"
    /\ JobsOf(jobs, last.uid) = 3

\* C8: an extension by d > 0 days at instant now stores
\* max(current subscription_until, now) + d, an absent or past value
\* counting as now, and never shortens the remaining time.
C8_ExtensionStacks ==
    [][ (last'.op \in ExtendOps /\ last'.days > 0) =>
          LET u == last'.uid
              current == SubOf(users, u)
              base == IF current = None \/ current < clock THEN clock ELSE current
          IN  /\ SubOf(users', u) = base + last'.days * HOURS_PER_DAY
              /\ current # None => SubOf(users', u) - clock >= current - clock ]_vars

\* C8 witness: a one-day extension granted on top of a day that remained.
C8_Witness ==
    /\ last.op = "activate"
    /\ last.days = 1
    /\ SubOf(users, last.uid) = clock + 2 * HOURS_PER_DAY

\* C9: once a user's trial_start is set, no operation changes it.
C9_TrialStartFrozen ==
    [][ \A u \in DOMAIN users :
          TrialOf(users, u) # None => TrialOf(users', u) = TrialOf(users, u) ]_vars

\* C9 witness: ensure_user has run again for a user whose trial started on
\* an earlier day.
C9_Witness ==
    /\ last.op \in {"help_cmd", "start", "on_message"}
    /\ TrialOf(users, last.uid) # None
    /\ TrialOf(users, last.uid) < clock

\* C10: a revoke leaves subscription_until absent and trial_start as it was
\* before, an unset trial_start or a missing row included.
C10_RevokeKeepsTrial ==
    [][ last'.op = "revoke" =>
          /\ SubOf(users', last'.uid) = None
          /\ TrialOf(users', last'.uid) = TrialOf(users, last'.uid) ]_vars

\* The jobs of a user that carry the given zone.
JobsIn(jq, u, tz) ==
    LET mine == {j \in DOMAIN jq : j.data = u /\ j.tzinfo = tz}
    IN  BagCardinality([j \in mine |-> jq[j]])

\* C11: evaluating access_state for any user id, with or without a row,
\* leaves the users table exactly as it was.
C11_AccessStatePure ==
    [][last'.op = "access_state" => users' = users]_vars

\* C12: a user whose access is not granted stays not granted over every
\* step that neither starts that user's trial nor extends that user's
\* subscription, the passing of time included.
C12_MonotonicDecay ==
    [][ \A u \in UserIds :
          ( /\ ~Granted(users, u, clock)
            /\ ~(TrialOf(users, u) = None /\ TrialOf(users', u) # None)
            /\ ~(last'.op \in ExtendOps /\ last'.uid = u /\ last'.days > 0) )
          => ~Granted(users', u, clock') ]_vars

\* C12 witness: access found expired at an instant later than the one at
\* which the trial ran out, with a lapsed subscription on record.
C12_Witness ==
    /\ last.label = "Expired"
    /\ TrialOf(users, last.uid) + TrialHours < clock
    /\ SubOf(users, last.uid) # None
    /\ SubOf(users, last.uid) < clock

\* C13: right after an admin revoke the target has no live job, and no job
\* callback runs for a user who has no job in the queue.
C13_RevokeCancelsAll ==
    /\ [](last.op = "revoke" => JobsOf(jobs, last.uid) = 0)
    /\ [][last'.op \in JobOps => JobsOf(jobs, last'.uid) > 0]_vars

\* C13 witness: a revoke that found three live jobs and left none.
C13_Witness ==
    /\ last.op = "revoke"
    /\ last.preJobs = 3
    /\ JobsOf(jobs, last.uid) = 0

\* C14: after a payment, /activate or /lifetime for a user with a stored
\* timezone, the user is granted access and has exactly three live jobs,
\* all in the stored timezone.
C14_GrantReschedules ==
    ( /\ last.op \in ExtendOps
      /\ last.days > 0
      /\ get_timezone(users, last.uid) # NoTz )
    => /\ Granted(users, last.uid, clock)
       /\ JobsOf(jobs, last.uid) = 3
       /\ JobsIn(jobs, last.uid, get_timezone(users, last.uid)) = 3

\* C15: a timezone selection that carries an unknown zone name leaves the
\* stored timezone and the job queue as they were.
C15_InvalidTimezoneRejected ==
    [][ \A u \in UserIds : \A tz \in TzInputs \ ZoneInfoKeys :
          tz_callback(u, tz)
          => /\ get_timezone(users', u) = get_timezone(users, u)
             /\ jobs' = jobs ]_vars

\* One job of every kind and nothing else, all in one zone.
Complete(jq, u) ==
    /\ JobsOf(jq, u) = Cardinality(Kinds)
    /\ \A k \in Kinds :
         Cardinality({j \in DOMAIN jq : j.data = u /\ j.callback = k}) = 1
    /\ \E tz \in ZoneInfoKeys : JobsIn(jq, u, tz) = JobsOf(jq, u)

\* The task has run the removal loop of reschedule.
InReschedule(task) == task.removed

\* C16: whenever the event loop is idle, so that a job may fire, the user's
\* jobs are one complete set (no kind twice, none missing), or none at all
\* with no reschedule begun.
C16_RescheduleAtomic ==
    running = 0 =>
        \/ Complete(jobs, LoopUser)
        \/ /\ JobsOf(jobs, LoopUser) = 0
           /\ \A t \in DOMAIN tasks : ~InReschedule(tasks[t])

\* C16 witness: a job fired after one handler replaced a complete set by a
\* set in another zone and before the other handler ran its reschedule.
C16_Witness ==
    /\ last.op \in JobOps
    /\ tasks # << >>
    /\ \E t \in DOMAIN tasks : Finished(tasks[t]) /\ InReschedule(tasks[t])
    /\ \E t \in DOMAIN tasks : ~Finished(tasks[t]) /\ ~InReschedule(tasks[t])
    /\ JobsIn(jobs, LoopUser, "America/Toronto") = 3

\* The days granted by the tasks that extend the subscription.
RECURSIVE DaysGranted(_)
DaysGranted(T) ==
    IF T = {} THEN 0
    ELSE LET t == CHOOSE x \in T : TRUE
         IN  tasks[t].days + DaysGranted(T \ {t})

\* C17: once both handlers have finished, subscription_until is
\* max(old, now) plus the sum of the days both granted, and at most one of
\* them created the row and wrote trial_start.
C17_ReadThenWriteAtomic ==
    /\ (tasks # << >> /\ \A t \in DOMAIN tasks : Finished(tasks[t])) =>
          LET sub0 == tasks[1].sub0
              total == DaysGranted(DOMAIN tasks)
              base == IF sub0 # None /\ sub0 > clock THEN sub0 ELSE clock
          IN  SubOf(users, LoopUser) =
                  IF total = 0 THEN sub0 ELSE base + timedelta(total, 0)
    /\ Cardinality({t \in DOMAIN tasks : tasks[t].inserted}) <= 1

\* C17 witness: a payment and an /activate for a user without a row have
\* both finished, one of them having created the row.
C17_Witness ==
    /\ tasks # << >>
    /\ \A t \in DOMAIN tasks : Finished(tasks[t])
    /\ {tasks[t].op : t \in DOMAIN tasks}
           = {"successful_payment_handler", "activate"}
    /\ \E t \in DOMAIN tasks : tasks[t].inserted
    /\ SubOf(users, LoopUser) = clock + timedelta(SUB_DAYS + 1, 0)

\* C18: while the Bot API is failing, a job callback keeps the jobs and its
\* last_prompt write, a revoke still clears the subscription and the jobs,
\* a payment or /activate still extends and reschedules, /start still
\* reschedules, and a timezone selection still stores the zone and
\* reschedules.
C18_DeliveryFailureKeepsEffects ==
    [][ ~net =>
        /\ last'.op \in JobOps =>
              /\ jobs' = jobs
              /\ Granted(users, last'.uid, clock) =>
                    get_last_prompt(users', last'.uid).prompt_at = clock
        /\ last'.op = "revoke" =>
              /\ SubOf(users', last'.uid) = None
              /\ JobsOf(jobs', last'.uid) = 0
        /\ (last'.op \in ExtendOps /\ last'.days > 0) =>
              /\ SubOf(users', last'.uid) >= clock + timedelta(last'.days, 0)
              /\ get_timezone(users', last'.uid) \in ZoneInfoKeys =>
                    JobsIn(jobs', last'.uid,
                           get_timezone(users', last'.uid)) = 3
        /\ ( /\ last'.op = "start"
             /\ get_timezone(users', last'.uid) \in ZoneInfoKeys
             /\ Granted(users', last'.uid, clock) ) =>
              JobsIn(jobs', last'.uid, get_timezone(users', last'.uid)) = 3
        /\ \A u \in UserIds : \A tz \in ZoneInfoKeys :
              tz_callback(u, tz) =>
                /\ get_timezone(users', u) = tz
                /\ Granted(users', u, clock) => JobsIn(jobs', u, tz) = 3
      ]_vars

\* C19: an accepted admin command aimed at a user id that has no row yet
\* leaves that user without a started trial.
C19_AdminDoesNotStartTrial ==
    [][ ( /\ last'.op \in {"activate", "lifetime", "revoke"}
          /\ last'.msg # "invalid args"
          /\ last'.uid \notin DOMAIN users )
        => TrialOf(users', last'.uid) = None ]_vars

\* The jobs of one user, as a bag.
JobsBagOf(jq, u) ==
    LET mine == {j \in DOMAIN jq : j.data = u}
    IN  [j \in mine |-> jq[j]]

\* C20: a handler that acts on one user leaves the jobs of every other user
\* as they were, also when one id is a decimal prefix of the other.
C20_OtherUsersUntouched ==
    [][ \A v \in UserIds :
          v # last'.uid => JobsBagOf(jobs', v) = JobsBagOf(jobs, v) ]_vars

\* C20 witness: user 1 was revoked with three live jobs while user 12 keeps
\* three.
C20_Witness ==
    /\ last.op = "revoke"
    /\ last.uid = 1
    /\ last.preJobs = 3
    /\ JobsOf(jobs, 1) = 0
    /\ JobsOf(jobs, 12) = 3

\* The jobs of a user that run the callback of one kind.
JobsOfKind(jq, u, kind) ==
    LET mine == {j \in DOMAIN jq : j.data = u /\ j.callback = kind}
    IN  BagCardinality([j \in mine |-> jq[j]])

\* C21: in every reachable state each user has no job at all or exactly one
\* job of each kind: never two of a kind, never a set of one or two kinds.
C21_EmptyOrComplete ==
    \A u \in UserIds :
        \/ JobsOf(jobs, u) = 0
        \/ /\ JobsOf(jobs, u) = Cardinality(Kinds)
           /\ \A k \in Kinds : JobsOfKind(jobs, u, k) = 1

\* C21 witness: a payment or admin grant found three jobs and left exactly
\* one of each kind.
C21_Witness ==
    /\ last.op \in ExtendOps
    /\ last.resched = "done"
    /\ last.preJobs = 3
    /\ \A k \in Kinds : JobsOfKind(jobs, last.uid, k) = 1

\* C22: whenever a user with a valid stored timezone is granted access and
\* has jobs, every one of the jobs carries the stored timezone.
C22_JobsCarryStoredZone ==
    \A u \in UserIds :
        ( /\ Granted(users, u, clock)
          /\ JobsOf(jobs, u) > 0
          /\ get_timezone(users, u) \in ZoneInfoKeys )
        => JobsIn(jobs, u, get_timezone(users, u)) = JobsOf(jobs, u)

\* C22 witness: after the trial ran out a grant found three jobs and left
\* the user granted with three jobs in the stored zone.
C22_Witness ==
    /\ last.op \in ExtendOps
    /\ last.preJobs = 3
    /\ TrialOf(users, last.uid) + TrialHours <= clock
    /\ Granted(users, last.uid, clock)
    /\ JobsIn(jobs, last.uid, "America/Toronto") = 3
    /\ get_timezone(users, last.uid) = "America/Toronto"

\* C23: a text message from a user whose access is not granted gets the
\* access-expired reply and nothing else; a reaction is only produced when
\* access is granted at the instant of the message.
C23_NoReactionWhenExpired ==
    last.op = "on_message" =>
        /\ ~Granted(users, last.uid, clock) => last.msg = "expired"
        /\ last.msg # "expired" => Granted(users, last.uid, clock)

\* C23 witness: a message answered with the access-expired text although a
\* prompt is on record.
C23_Witness ==
    /\ last.op = "on_message"
    /\ last.msg = "expired"
    /\ ~Granted(users, last.uid, clock)
    /\ get_last_prompt(users, last.uid).prompt_type # NULL

====
